---- MODULE Spec2Model ----
(***************************************************************************)
(* ASM Formatter (metablaster/ASM-Formatter): the formatting function      *)
(* FormatFileA of src/asmformat/FormatFile.cpp, its helpers, and the       *)
(* per-file loop of src/asmformat/main.cpp that calls it.                  *)
(*                                                                         *)
(* Text is a sequence of one-character strings.  A stream is a record      *)
(* [str, pos, eof, fail]: the buffer of the std::stringstream, the count   *)
(* of characters already extracted, and the eofbit and failbit.            *)
(*                                                                         *)
(* The regular expressions of the source are modelled by what the matcher  *)
(* does on the text.  One thing is decided by the standard library the     *)
(* program is built with and not by the source: whether '^' also matches   *)
(* after a line feed and '$' before a line feed.  The MSVC library the     *)
(* project was written against does (its ECMAScript matcher tests the      *)
(* neighbouring character against '\n'); a library that follows the        *)
(* standard matches '^' and '$' only at the two ends of the text.  The     *)
(* variable multiline holds which of the two the build has.                *)
(***************************************************************************)
EXTENDS Integers, Sequences, FiniteSets, TLC

LF == "\n"
CR == "\r"
SP == " "
TAB == "\t"
SEMI == ";"

\* \s of the regular expressions, over the characters of the model
Whitespace == {SP, TAB, CR, LF}

\* \w of the regular expressions: letters, digits and underscore
WordChars ==
    {"a","b","c","d","e","f","g","h","i","j","k","l","m",
     "n","o","p","q","r","s","t","u","v","w","x","y","z",
     "A","B","C","D","E","F","G","H","I","J","K","L","M",
     "N","O","P","Q","R","S","T","U","V","W","X","Y","Z",
     "0","1","2","3","4","5","6","7","8","9","_"}

UpperCase == <<"A","B","C","D","E","F","G","H","I","J","K","L","M",
               "N","O","P","Q","R","S","T","U","V","W","X","Y","Z">>
LowerCase == <<"a","b","c","d","e","f","g","h","i","j","k","l","m",
               "n","o","p","q","r","s","t","u","v","w","x","y","z">>

\* case folding of std::regex_constants::icase
ToLower(ch) ==
    IF \E i \in 1..26 : UpperCase[i] = ch
    THEN LowerCase[CHOOSE i \in 1..26 : UpperCase[i] = ch]
    ELSE ch

\* '.' of the regular expressions matches everything but a line terminator
DotChar(ch) == ch \notin {LF, CR}

---------------------------------------------------------------------------
(* Plain string operations *)

\* std::string::starts_with
StartsWith(s, p) == Len(s) >= Len(p) /\ SubSeq(s, 1, Len(p)) = p

\* the literal lit stands in s right after the first i characters
LitAt(s, i, lit) == Len(s) >= i + Len(lit) /\ SubSeq(s, i + 1, i + Len(lit)) = lit

\* the same, letters compared without case (icase)
ILitAt(s, i, lit) ==
    /\ Len(s) >= i + Len(lit)
    /\ \A k \in 1..Len(lit) : ToLower(s[i + k]) = lit[k]

\* length of the longest run of characters of S in s after the first i characters
RECURSIVE RunLen(_, _, _)
RunLen(s, i, S) ==
    IF i < Len(s) /\ s[i + 1] \in S THEN 1 + RunLen(s, i + 1, S) ELSE 0

\* number of consecutive copies of lit in s after the first i characters
RECURSIVE LitRun(_, _, _)
LitRun(s, i, lit) ==
    IF LitAt(s, i, lit) THEN 1 + LitRun(s, i + Len(lit), lit) ELSE 0

\* n copies of the character ch: std::string(n, ch), append(n, ch)
Repeat(n, ch) == [k \in 1..n |-> ch]

\* s without its last character: line.erase(line.cend() - 1)
DropLast(s) == SubSeq(s, 1, Len(s) - 1)

\* s from character i + 1 on
Tail_(s, i) == SubSeq(s, i + 1, Len(s))

\* index of the first ch in s after the first i characters, 0 when there is none
RECURSIVE FindChar(_, _, _)
FindChar(s, i, ch) ==
    IF i >= Len(s) THEN 0
    ELSE IF s[i + 1] = ch THEN i + 1
    ELSE FindChar(s, i + 1, ch)

---------------------------------------------------------------------------
(* std::stringstream *)

Stream(text) == [str |-> text, pos |-> 0, eof |-> FALSE, fail |-> FALSE]

good(fd) == ~fd.eof /\ ~fd.fail

\* std::getline(filedata, line): the line read and the stream afterwards.
\* A stream that is not good fails without touching the line; at the end of
\* the buffer nothing is extracted and eofbit and failbit are set; a last
\* line without '\n' is extracted and only eofbit is set.
getline(fd, old) ==
    IF ~good(fd) THEN [line |-> old, fd |-> [fd EXCEPT !.fail = TRUE]]
    ELSE LET nl == FindChar(fd.str, fd.pos, LF) IN
         IF nl # 0
         THEN [line |-> SubSeq(fd.str, fd.pos + 1, nl - 1),
               fd   |-> [fd EXCEPT !.pos = nl]]
         ELSE [line |-> Tail_(fd.str, fd.pos),
               fd   |-> [fd EXCEPT !.pos = Len(fd.str), !.eof = TRUE,
                                   !.fail = (fd.pos = Len(fd.str))]]

\* filedata.tellg(): -1 on a failed stream
tellg(fd) == IF fd.fail \/ fd.eof THEN -1 ELSE fd.pos

\* a clear() that leaves the state bits as they are
clearNothing(fd) == fd

\* filedata.clear()
clear(fd) == [fd EXCEPT !.eof = FALSE, !.fail = FALSE]

\* filedata.seekg(pos): clears eofbit; seeking to pos_type(-1) fails
seekg(fd, p) ==
    IF fd.fail THEN fd
    ELSE IF p < 0 THEN [fd EXCEPT !.eof = FALSE, !.fail = TRUE]
    ELSE [fd EXCEPT !.eof = FALSE, !.pos = p]

\* filedata.str(text): replaces the buffer, the read position is its start
str(fd, text) == [fd EXCEPT !.str = text, !.pos = 0]

---------------------------------------------------------------------------
(* Line classification *)

NoInfo == [comment |-> FALSE, blank |-> FALSE, label |-> FALSE,
           mnemonic |-> "none", directive |-> "none"]

\* ^\w+\s+<keyword>, icase
WordThenKeyword(line, keyword) ==
    LET w == RunLen(line, 0, WordChars)
        s == RunLen(line, w, Whitespace)
    IN  w >= 1 /\ s >= 1 /\ ILitAt(line, w + s, keyword)

\* ^\w+:
WordThenColon(line) ==
    LET w == RunLen(line, 0, WordChars)
    IN  w >= 1 /\ LitAt(line, w, <<":">>)

GetLineInfo(line) ==
    IF ILitAt(line, 0, <<"c","a","l","l">>)
        THEN [NoInfo EXCEPT !.mnemonic = "call"]
    ELSE IF WordThenKeyword(line, <<"p","r","o","c">>)
        THEN [NoInfo EXCEPT !.directive = "proc"]
    ELSE IF WordThenKeyword(line, <<"e","n","d","p">>)
        THEN [NoInfo EXCEPT !.directive = "endp"]
    ELSE IF WordThenColon(line)
        THEN [NoInfo EXCEPT !.label = TRUE]
    ELSE IF ILitAt(line, 0, <<".","d","a","t","a">>)
        THEN [NoInfo EXCEPT !.directive = "_data"]
    ELSE IF ILitAt(line, 0, <<".","c","o","d","e">>)
        THEN [NoInfo EXCEPT !.directive = "_code"]
    ELSE IF ILitAt(line, 0, <<".","c","o","n","s","t">>)
        THEN [NoInfo EXCEPT !.directive = "_const"]
    ELSE IF ILitAt(line, 0, <<"e","n","d">>)
        THEN [NoInfo EXCEPT !.directive = "end"]
    ELSE NoInfo

SectionStart == {"proc", "_data", "_code", "_const"}

\* TestIndentLine without the test of the label
TestIndentLineNoLabel(lineinfo) ==
    lineinfo.directive \notin {"proc", "endp", "_code", "_data", "_const"}

TestIndentLine(lineinfo) ==
    IF lineinfo.directive \in {"proc", "endp", "_code", "_data", "_const"}
    THEN FALSE
    ELSE ~lineinfo.label

---------------------------------------------------------------------------
(* Peeking *)

\* the "Drop \r" of every reading loop: with a CRLF file the last character
\* of a non-empty line is erased, whatever it is
DropCR(line, crlf) == IF line # <<>> /\ crlf THEN DropLast(line) ELSE line

PeekNextLine(fd) ==
    LET p == tellg(fd)
        g == getline(fd, <<>>)
    IN  [nextline |-> g.line, fd |-> seekg(clear(g.fd), p)]

GetLineBreak(fd) ==
    LET pk == PeekNextLine(fd) IN
    [linebreak |-> IF pk.nextline = <<>> \/ pk.nextline[Len(pk.nextline)] # CR
                   THEN "LF" ELSE "CRLF",
     fd |-> pk.fd]

\* the while loop of PeekNextCodeLine: the stream and codeline it stops with
RECURSIVE PeekCodeLoop(_, _, _, _)
PeekCodeLoop(fd, codeline, crlf, skip_blanks) ==
    LET g == getline(fd, codeline) IN
    IF ~good(g.fd) THEN [codeline |-> g.line, fail |-> FALSE, fd |-> g.fd]
    ELSE IF StartsWith(g.line, <<SEMI>>)
        THEN PeekCodeLoop(g.fd, g.line, crlf, skip_blanks)
    ELSE LET l == DropCR(g.line, crlf) IN
         IF l = <<>>
         THEN IF skip_blanks
              THEN PeekCodeLoop(g.fd, l, crlf, skip_blanks)
              ELSE [codeline |-> l, fail |-> TRUE, fd |-> g.fd]
         ELSE [codeline |-> l, fail |-> FALSE, fd |-> g.fd]

\* PeekNextCodeLine without the test of eof
PeekNextCodeLineNoEof(fd, crlf, skip_blanks) ==
    LET p == tellg(fd)
        r == PeekCodeLoop(fd, <<>>, crlf, skip_blanks)
    IN  [codeline |-> r.codeline,
         fail     |-> r.fail,
         fd       |-> seekg(clear(r.fd), p)]

PeekNextCodeLine(fd, crlf, skip_blanks) ==
    LET p == tellg(fd)
        r == PeekCodeLoop(fd, <<>>, crlf, skip_blanks)
    IN  [codeline |-> r.codeline,
         fail     |-> r.fail \/ r.fd.eof,
         fd       |-> seekg(clear(r.fd), p)]

\* the while loop of GetBlankCount
RECURSIVE BlankCountLoop(_, _, _)
BlankCountLoop(fd, line, crlf) ==
    LET g == getline(fd, line) IN
    IF ~good(g.fd) THEN [count |-> 0, fd |-> g.fd]
    ELSE IF DropCR(g.line, crlf) = <<>>
        THEN LET r == BlankCountLoop(g.fd, <<>>, crlf)
             IN  [count |-> r.count + 1, fd |-> r.fd]
    ELSE [count |-> 0, fd |-> g.fd]

\* GetBlankCount counting the line that ends its loop as well
GetBlankCountPlusOne(fd, crlf) ==
    LET p == tellg(fd)
        r == BlankCountLoop(fd, <<>>, crlf)
    IN  [count |-> r.count + 1, fd |-> seekg(clear(r.fd), p)]

GetBlankCount(fd, crlf) ==
    LET p == tellg(fd)
        r == BlankCountLoop(fd, <<>>, crlf)
    IN  [count |-> r.count, fd |-> seekg(clear(r.fd), p)]

---------------------------------------------------------------------------
(* The regular expressions of the two reading loops *)

\* length of the longest run of characters outside S after the first i characters
RECURSIVE RunLenNot(_, _, _)
RunLenNot(s, i, S) ==
    IF i < Len(s) /\ s[i + 1] \notin S THEN 1 + RunLenNot(s, i + 1, S) ELSE 0

\* length of the run of characters of S that ends s
RECURSIVE TrailingRun(_, _)
TrailingRun(s, S) ==
    IF s # <<>> /\ s[Len(s)] \in S THEN 1 + TrailingRun(DropLast(s), S) ELSE 0

\* regex_replace(line, "^\s+(.*)", "$1"): the match is the leading whitespace
\* and the characters '.' accepts after it; it is replaced by the latter
TrimLeading(line) ==
    LET w == RunLen(line, 0, Whitespace) IN
    IF w = 0 THEN line
    ELSE LET d == RunLenNot(line, w, {LF, CR})
         IN  SubSeq(line, w + 1, w + d) \o Tail_(line, w + d)

\* regex_replace(line, "\s+$", ""): a line holds no '\n', '$' is its end
TrimTrailing(line) == SubSeq(line, 1, Len(line) - TrailingRun(line, Whitespace))

\* (.*?)(?=\s*;) tried after the first start characters: the number of
\* characters of line before the whitespace that precedes the first ';',
\* -1 when the pattern does not match
CodeEnd(line, start) ==
    LET ends == {k \in start..Len(line) :
                    /\ \A j \in (start + 1)..k : DotChar(line[j])
                    /\ LitAt(line, k + RunLen(line, k, Whitespace), <<SEMI>>)}
    IN  IF ends = {} THEN 0 - 1
        ELSE CHOOSE k \in ends : \A m \in ends : k <= m

\* regex_replace(text, "^;\s*", replacement) on a text that begins with ';'
SpaceComment(text, replacement) ==
    IF StartsWith(text, <<SEMI>>)
    THEN replacement \o Tail_(text, 1 + RunLen(text, 1, Whitespace))
    ELSE text

\* the body of the first loop for one line: the trimmed line and the code
\* length it contributes (0 when the line has no inline comment)
FirstPassLine(raw, crlf) ==
    LET l1 == DropCR(raw, crlf)
        l2 == IF l1 # <<>> THEN TrimTrailing(TrimLeading(l1)) ELSE l1
        ce == IF l1 # <<>> /\ ~StartsWith(l2, <<SEMI>>) THEN CodeEnd(l2, 0) ELSE 0 - 1
    IN  [line |-> l2, codelen |-> IF ce < 0 THEN 0 ELSE ce]

\* const std::size_t maxmissing = tab_width - maxcodelen % tab_width
maxmissing(tab_width, maxcodelen) == tab_width - (maxcodelen % tab_width)

\* std::string tab = spaces ? std::string(tab_width, ' ') : "\t"
TabOf(tab_width, spaces) == IF spaces THEN Repeat(tab_width, SP) ELSE <<TAB>>

\* the inline comment alignment of the second loop, applied to a code line
\* that already carries its indentation
AlignComment(line, indent, tab_width, spaces, maxcodelen) ==
    LET tab   == TabOf(tab_width, spaces)
        g1    == IF LitAt(line, 0, tab) /\ CodeEnd(line, Len(tab)) >= 0
                 THEN Len(tab) ELSE 0
        k     == CodeEnd(line, g1)
    IN  IF k < 0 THEN line
        ELSE
        LET ws      == RunLen(line, k, Whitespace)
            cend    == k + ws + 1 + RunLenNot(line, k + ws + 1, {LF, CR})
            codelen == k - g1
            code    == SubSeq(line, 1, k) \o Tail_(line, cend)
            comment == SpaceComment(SubSeq(line, k + ws + 1, cend) \o Tail_(line, cend),
                                    <<SEMI, SP>>)
            diff    == (maxcodelen - codelen) + maxmissing(tab_width, maxcodelen)
            tabcount == (diff \div tab_width)
                        + (IF ~indent THEN 1 ELSE 0)
                        + (IF diff % tab_width # 0 THEN 1 ELSE 0)
        IN  IF spaces
            THEN code \o Repeat(IF ~indent THEN diff + tab_width ELSE diff, SP) \o comment
            ELSE code \o Repeat(tabcount, TAB) \o comment

\* the comment branch of the second loop: the rewritten comment line, whether
\* a line break goes before it, and the stream after the peek
CommentLine(fd, line, previous, crlf, tab_width, spaces) ==
    LET pk           == PeekNextCodeLine(fd, crlf, FALSE)
        isblank      == pk.fail
        nextcodeinfo == IF isblank THEN NoInfo ELSE GetLineInfo(pk.codeline)
        next_indent  == ~isblank /\ TestIndentLine(nextcodeinfo)
        replacement  == IF next_indent
                        THEN TabOf(tab_width, spaces) \o <<SEMI, SP>>
                        ELSE <<SEMI, SP>>
    IN  [text   |-> SpaceComment(line, replacement),
         before |-> ~(previous.blank \/ previous.comment)
                    /\ nextcodeinfo.directive \in SectionStart,
         fd     |-> pk.fd]

\* the code branch of the second loop: the rewritten line, whether a line
\* break goes before it, the lines to skip, whether a blank line is to be
\* inserted after it, and the stream after the peeks
CodeLine(fd, line, previous, crlf, tab_width, spaces, maxcodelen) ==
    LET pk           == PeekNextCodeLine(fd, crlf, TRUE)
        isend        == pk.fail
        lineinfo     == GetLineInfo(line)
        nextcodeinfo == GetLineInfo(pk.codeline)
        bc           == GetBlankCount(pk.fd, crlf)
        indent       == TestIndentLine(lineinfo)
        indented     == IF indent THEN TabOf(tab_width, spaces) \o line ELSE line
    IN  [text   |-> AlignComment(indented, indent, tab_width, spaces, maxcodelen),
         before |-> lineinfo.directive \in SectionStart
                    /\ ~(previous.blank \/ previous.comment),
         skip   |-> IF lineinfo.directive \in SectionStart THEN bc.count
                    ELSE IF lineinfo.directive = "endp" /\ ~isend
                            /\ nextcodeinfo.directive = "end" THEN bc.count
                    ELSE 0,
         insert |-> IF lineinfo.directive \in SectionStart THEN FALSE
                    ELSE IF lineinfo.directive = "endp"
                        THEN ~isend /\ nextcodeinfo.directive # "end" /\ bc.count = 0
                    ELSE IF lineinfo.mnemonic = "call" THEN TRUE
                    ELSE ~isend /\ nextcodeinfo.label,
         fd     |-> IF lineinfo.directive \in SectionStart
                       \/ (lineinfo.directive = "endp" /\ ~isend)
                    THEN bc.fd ELSE pk.fd]

---------------------------------------------------------------------------
(* The blank line normalizer and the line break substitution *)

\* '^' and '$' at the place after the first p characters of text
AtBol(text, p, ml) == p = 0 \/ (ml /\ text[p] = LF)
AtEol(text, p, ml) == p = Len(text) \/ (ml /\ text[p + 1] = LF)

\* regex_replace(result, "^(linebreak){2,}", linebreak), with match_continuous
\* when continuous: text from character p + 1 on, rewritten
RECURSIVE ReplaceSurplus(_, _, _, _, _)
ReplaceSurplus(text, p, linebreak, ml, continuous) ==
    IF p >= Len(text) THEN <<>>
    ELSE LET run == LitRun(text, p, linebreak) IN
         IF AtBol(text, p, ml) /\ run >= 2
         THEN linebreak \o ReplaceSurplus(text, p + run * Len(linebreak), linebreak,
                                          ml, continuous)
         ELSE IF continuous THEN Tail_(text, p)
         ELSE <<text[p + 1]>> \o ReplaceSurplus(text, p + 1, linebreak, ml, continuous)

\* the lookahead (?=\w+\s+endp), icase, after the first i characters
EndpAhead(text, i) ==
    LET w == RunLen(text, i, WordChars)
        s == RunLen(text, i + w, Whitespace)
    IN  w >= 1 /\ s >= 1 /\ ILitAt(text, i + w + s, <<"e","n","d","p">>)

\* regex_replace(result, "^(linebreak)+(?=\w+\s+endp)", "")
RECURSIVE RemoveBeforeEndp(_, _, _, _)
RemoveBeforeEndp(text, p, linebreak, ml) ==
    IF p >= Len(text) THEN <<>>
    ELSE LET run == LitRun(text, p, linebreak) IN
         IF AtBol(text, p, ml) /\ run >= 1
            /\ EndpAhead(text, p + run * Len(linebreak))
         THEN RemoveBeforeEndp(text, p + run * Len(linebreak), linebreak, ml)
         ELSE <<text[p + 1]>> \o RemoveBeforeEndp(text, p + 1, linebreak, ml)

\* TrimEnd as it would be if the pattern never matched
TrimEndNever(text, p, linebreak, ml) == Tail_(text, p)

\* regex_replace(result, "(linebreak){2,}$", linebreak): the repetition is
\* greedy and gives back line breaks until '$' matches
RECURSIVE TrimEnd(_, _, _, _)
TrimEnd(text, p, linebreak, ml) ==
    IF p >= Len(text) THEN <<>>
    ELSE LET run  == LitRun(text, p, linebreak)
             fits == {r \in 2..run : AtEol(text, p + r * Len(linebreak), ml)}
         IN  IF fits # {}
             THEN LET r == CHOOSE x \in fits : \A y \in fits : y <= x
                  IN  linebreak \o TrimEnd(text, p + r * Len(linebreak), linebreak, ml)
             ELSE <<text[p + 1]>> \o TrimEnd(text, p + 1, linebreak, ml)

\* wsl::ReplaceAll(source, from, to)
RECURSIVE ReplaceAll(_, _, _)
ReplaceAll(source, from, to) ==
    IF source = <<>> THEN <<>>
    ELSE IF StartsWith(source, from)
        THEN to \o ReplaceAll(Tail_(source, Len(from)), from, to)
    ELSE <<source[1]>> \o ReplaceAll(Tail_(source, 1), from, to)

LineBreakText(crlf) == IF crlf THEN <<CR, LF>> ELSE <<LF>>

\* Preserve with the comparison of crlf turned around
PreserveInverted(crlf, line_break) ==
    (line_break = "Preserve") \/ (crlf = (line_break # "CRLF"))

\* const bool preserve = (line_break == Preserve) || (crlf != (line_break != CRLF))
Preserve(crlf, line_break) ==
    (line_break = "Preserve") \/ (crlf # (line_break # "CRLF"))

\* NormalizeBlanks without "Make sure first line is blank"
NormalizeBlanksNoLeading(text, crlf, compact, ml) ==
    LET linebreak == LineBreakText(crlf)
        t2 == ReplaceSurplus(text, 0, linebreak, ml, ~compact)
        t3 == RemoveBeforeEndp(t2, 0, linebreak, ml)
    IN  TrimEnd(t3, 0, linebreak, ml)

\* lines 957-984 of FormatFileA: the text the normalizer makes of result
NormalizeBlanks(text, crlf, compact, ml) ==
    LET linebreak == LineBreakText(crlf)
        t1 == IF StartsWith(text, linebreak) THEN text ELSE linebreak \o text
        t2 == ReplaceSurplus(t1, 0, linebreak, ml, ~compact)
        t3 == RemoveBeforeEndp(t2, 0, linebreak, ml)
    IN  TrimEnd(t3, 0, linebreak, ml)

\* lines 986-1003 of FormatFileA
ConvertLineBreaks(text, crlf, line_break) ==
    IF Preserve(crlf, line_break) THEN text
    ELSE IF line_break = "LF" THEN ReplaceAll(text, LineBreakText(crlf), <<LF>>)
    ELSE IF line_break = "CRLF" THEN ReplaceAll(text, LineBreakText(crlf), <<CR, LF>>)
    ELSE text

---------------------------------------------------------------------------
(* Input files *)

\* longest file, in lines
MaxLines == 4
\* widest tab
MaxTabWidth == 3

Blank      == <<>>
Comment    == <<SEMI, "c">>
Plain      == <<"x">>
ProcStart  == <<"p", " ", "p", "r", "o", "c">>
ProcEnd    == <<"p", " ", "E", "N", "D", "P">>
Label      == <<"l", ":">>
Call       == <<"c", "a", "l", "l", " ", "p">>
End        == <<"e", "n", "d">>
DataSection == <<".", "d", "a", "t", "a">>
CodeSection == <<".", "c", "o", "d", "e">>
ConstSection == <<".", "c", "o", "n", "s", "t">>

\* lines with an inline comment, and lines to be trimmed
Short      == <<"a", SEMI, "c">>
Long       == <<SP, "a", "b", "c", "d", SP, SEMI, SP, SP, "c", TAB>>
Tabbed     == <<"a", TAB, "b", SEMI, "c">>
LabelNote  == <<"l", ":", SP, SEMI, "c">>

\* a line with a carriage return that is not part of its line break
Stray      == <<"a", CR, "b">>
StrayNote  == <<"a", SEMI, "c", CR, "d">>

StructureLines == {Blank, Comment, Plain, ProcStart, ProcEnd, Label, Call, End,
                   DataSection}
AlignLines == {Blank, Plain, Short, Long, Tabbed, LabelNote, CodeSection,
               ConstSection}

\* the text of a file: every line followed by the line break
Range(f) == {f[i] : i \in DOMAIN f}

RECURSIVE Join(_, _)
Join(lines, linebreak) ==
    IF lines = <<>> THEN <<>>
    ELSE lines[1] \o linebreak \o Join(Tail(lines), linebreak)

\* every file of at most n lines of kinds, with each of the two line breaks
FilesOf(kinds, n) ==
    LET seqs == UNION {[1..k -> kinds] : k \in 0..n}
    IN  {Join(ls, <<LF>>) : ls \in seqs} \cup {Join(ls, <<CR, LF>>) : ls \in seqs}

\* files whose lines do not all end alike: a file of LF lines or of CRLF
\* lines followed by one line with the other line break, or with none
MixedFiles ==
    LET heads == FilesOf({Blank, Plain, Short}, MaxLines - 1)
    IN  {h \o l \o t : h \in heads, l \in {Blank, Plain, Short, Stray, StrayNote},
                       t \in {<<>>, <<LF>>, <<CR, LF>>}}

---------------------------------------------------------------------------
(* The command line *)

\* ErrorCode.hpp: the values ExitCode returns
ErrorCode == [Success |-> 0, NotImplemented |-> 102, FunctionFailed |-> 110,
              UnhandledException |-> 120, UnknownOption |-> 200,
              InvalidOptionArgument |-> 201, InvalidCommand |-> 202,
              UnspecifiedError |-> 300]

\* the exit status of a process that has not ended
Running == 0 - 1

\* A std::size_t has 64 bits.  It is held as four limbs of 16 bits, the most
\* significant first.
Limb == 65536

\* static_cast<std::size_t>(n) of an int n: the value modulo 2^64
static_cast_size_t(n) ==
    LET ext == IF n < 0 THEN Limb - 1 ELSE 0
    IN  <<ext, ext, (n \div Limb) % Limb, n % Limb>>

\* width < 1 of a std::size_t
LessThanOne(width) == width = <<0, 0, 0, 0>>

\* the arguments that begin with "--": param.starts_with("--")
Options == {"--version", "--help", "--nologo", "--spaces", "--compact", "--recurse",
            "--encoding", "--tabwidth", "--linebreaks", "--directory", "--path",
            "--bogus"}

\* std::stoi(arg) of the arguments it can convert; it throws on the others
stoi == [t \in {"-1", "0", "2"} |-> CASE t = "-1" -> 0 - 1 [] t = "0" -> 0 [] t = "2" -> 2]

\* the file system: the files that exist with the path each has in disk,
\* and the *.asm files of each directory
Existing == [t \in {"a.asm"} |-> 1]
Directories == [t \in {"dir"} |-> <<1>>]

\* fs::exists(arg): true of a file and of a directory
exists(arg) == arg \in DOMAIN Existing \/ arg \in DOMAIN Directories

\* the path files.push_back(arg) adds; 0 is a path that is not a file
PathOf(arg) == IF arg \in DOMAIN Existing THEN Existing[arg] ELSE 0

\* s is among the elements of params: std::find(...) != end()
Find(params, s) == \E k \in 1..Len(params) : params[k] = s

\* argc < (nologo ? 3 : 2)
Usage(params) == Len(params) + 1 < (IF Find(params, "--nologo") THEN 3 ELSE 2)

\* files.empty() after the loop over the arguments
files_empty(files) == files = <<>>

---------------------------------------------------------------------------
(* The program *)

VARIABLES
    multiline,          \* the build: '^' and '$' also match at line feeds
    argv,               \* the paths named on the command line, in order
    starts,             \* how often the program is still started with argv
    tab_width, spaces, compact, line_break,     \* the options given
    disk,               \* the content of the file at each path
    written,            \* the paths the formatter has written
    paths,              \* main: the paths still to format
    filedata,           \* the stream FormatFileA works on
    input,              \* its content when FormatFileA was entered
    pc,                 \* where the program is
    crlf, line, result, maxcodelen, skiplines,  \* locals of FormatFileA
    previous_line, insert_blankline,            \* statics of FormatFile.cpp
    error,              \* the error ShowError reported in this call
    all_params,         \* main: the arguments of the command line
    argi,               \* main: the index of the argument the loop is at
    tabwidth,           \* main: the tab width, a std::size_t
    lineinfo,           \* the LineInfo a call of GetLineInfo on line returned
    exitcode            \* the exit status of the process, Running before

vars == <<multiline, argv, starts, tab_width, spaces, compact, line_break, disk,
          written, paths, filedata, input, pc, crlf, line, result, maxcodelen,
          skiplines, previous_line, insert_blankline, error, all_params, argi,
          tabwidth, lineinfo, exitcode>>

build   == <<multiline, argv, all_params, argi, tabwidth, lineinfo, exitcode>>
options == <<tab_width, spaces, compact, line_break>>
statics == <<previous_line, insert_blankline>>
locals  == <<crlf, line, result, maxcodelen, skiplines>>

LineBreaks == {"LF", "CRLF", "CR", "Preserve"}

\* the command lines: path 1 is the file looked at, path 2 a file formatted
\* before it
Once  == <<1>>
Twice == <<1, 1>>
After == <<2, 1>>

\* the state in which main enters its loop over the files: the statics are
\* zero-initialised, nothing is loaded; the command line that led here is
\* not kept
InitWith(fileset, leaders, argvs, startset, widths, spaceset, compactset, breaks) ==
    /\ multiline \in BOOLEAN
    /\ argv \in argvs
    /\ starts \in startset
    /\ tab_width \in widths
    /\ spaces \in spaceset
    /\ compact \in compactset
    /\ line_break \in breaks
    /\ \E f \in fileset, l \in leaders :
          disk = [p \in {1, 2} |-> IF p = 1 THEN f ELSE IF 2 \in Range(argv) THEN l ELSE <<>>]
    /\ written = {}
    /\ paths = argv
    /\ filedata = Stream(<<>>)
    /\ input = <<>>
    /\ pc = "main"
    /\ crlf = FALSE
    /\ line = <<>>
    /\ result = <<>>
    /\ maxcodelen = 0
    /\ skiplines = 0
    /\ previous_line = NoInfo
    /\ insert_blankline = FALSE
    /\ error = "none"
    /\ all_params = <<>>
    /\ argi = 1
    /\ tabwidth = static_cast_size_t(tab_width)
    /\ lineinfo = NoInfo
    /\ exitcode = Running

\* main.cpp, loop over the files: the next file is loaded into filedata
LoadFile ==
    /\ pc = "main"
    /\ paths # <<>>
    /\ filedata' = Stream(disk[Head(paths)])
    /\ input' = disk[Head(paths)]
    /\ pc' = "call"
    /\ UNCHANGED <<build, starts, options, disk, written, paths, locals, statics, error>>

\* main.cpp: FormatFileA has returned, the content of filedata is written
WriteFile ==
    /\ pc = "done"
    /\ disk' = [disk EXCEPT ![Head(paths)] = filedata.str]
    /\ written' = written \cup {Head(paths)}
    /\ paths' = Tail(paths)
    /\ pc' = "main"
    /\ UNCHANGED <<build, starts, options, filedata, input, locals, statics, error>>

\* the program has ended and is started again with the same command line
Restart ==
    /\ pc = "main"
    /\ paths = <<>>
    /\ starts > 1
    /\ starts' = starts - 1
    /\ paths' = argv
    /\ previous_line' = NoInfo
    /\ insert_blankline' = FALSE
    /\ UNCHANGED <<build, options, disk, written, filedata, input, pc, locals, error>>

\* FormatFileA up to its first loop
Enter ==
    /\ pc = "call"
    /\ LET lb == GetLineBreak(filedata) IN
        /\ crlf' = (lb.linebreak = "CRLF")
        /\ filedata' = lb.fd
    /\ line' = <<>>
    /\ result' = <<>>
    /\ maxcodelen' = 0
    /\ skiplines' = 0
    /\ error' = "none"
    /\ pc' = "first"
    /\ UNCHANGED <<build, starts, options, disk, written, paths, input, statics>>

\* FirstLoop taking every code length it measures as the greatest
FirstLoopLast ==
    /\ pc = "first"
    /\ LET g == getline(filedata, line)
           f == FirstPassLine(g.line, crlf)
       IN  /\ good(g.fd)
           /\ filedata' = g.fd
           /\ maxcodelen' = f.codelen
           /\ line' = f.line \o LineBreakText(crlf)
           /\ result' = result \o f.line \o LineBreakText(crlf)
    /\ UNCHANGED <<build, starts, options, disk, written, paths, input, pc, crlf,
                   skiplines, statics, error>>

\* one turn of the first loop
FirstLoop ==
    /\ pc = "first"
    /\ LET g == getline(filedata, line)
           f == FirstPassLine(g.line, crlf)
       IN  /\ good(g.fd)
           /\ filedata' = g.fd
           /\ maxcodelen' = IF f.codelen > maxcodelen THEN f.codelen ELSE maxcodelen
           /\ line' = f.line \o LineBreakText(crlf)
           /\ result' = result \o f.line \o LineBreakText(crlf)
    /\ UNCHANGED <<build, starts, options, disk, written, paths, input, pc, crlf,
                   skiplines, statics, error>>

\* the first loop ends: the failure check, then the trimmed text becomes the
\* content of filedata
FirstLoopEnd ==
    /\ pc = "first"
    /\ LET g == getline(filedata, line) IN
        /\ ~good(g.fd)
        /\ line' = g.line
        /\ IF ~g.fd.eof /\ g.fd.fail
           THEN /\ error' = "ParseFailure"
                /\ filedata' = g.fd
                /\ pc' = "done"
                /\ UNCHANGED result
           ELSE /\ filedata' = str(clear(g.fd), result)
                /\ result' = <<>>
                /\ pc' = "second"
                /\ UNCHANGED error
    /\ skiplines' = 0
    /\ UNCHANGED <<build, starts, options, disk, written, paths, input, crlf,
                   maxcodelen, statics>>

\* Emit with the blank line of insert_blankline put before the line
EmitBlankFirst(before, text, insert, previous) ==
    /\ result' = result
                 \o (IF before THEN LineBreakText(crlf) ELSE <<>>)
                 \o (IF insert THEN LineBreakText(crlf) ELSE <<>>)
                 \o text \o LineBreakText(crlf)
    /\ line' = text \o LineBreakText(crlf)
    /\ insert_blankline' = FALSE
    /\ previous_line' = IF insert THEN [previous EXCEPT !.blank = TRUE] ELSE previous

\* lines 938-946: the line goes to result, and a blank line after it when
\* insert_blankline is set
Emit(before, text, insert, previous) ==
    /\ result' = result
                 \o (IF before THEN LineBreakText(crlf) ELSE <<>>)
                 \o text \o LineBreakText(crlf)
                 \o (IF insert THEN LineBreakText(crlf) ELSE <<>>)
    /\ line' = text \o LineBreakText(crlf)
    /\ insert_blankline' = FALSE
    /\ previous_line' = IF insert THEN [previous EXCEPT !.blank = TRUE] ELSE previous

\* a turn of the second loop that skips the line
SkipLine ==
    /\ pc = "second"
    /\ LET g == getline(filedata, line) IN
        /\ good(g.fd)
        /\ skiplines > 0
        /\ skiplines' = skiplines - 1
        /\ line' = g.line
        /\ filedata' = g.fd
    /\ UNCHANGED <<build, starts, options, disk, written, paths, input, pc, crlf,
                   result, maxcodelen, statics, error>>

\* a turn of the second loop on a blank line
BlankLine ==
    /\ pc = "second"
    /\ LET g == getline(filedata, line) IN
        /\ good(g.fd)
        /\ skiplines = 0
        /\ DropCR(g.line, crlf) = <<>>
        /\ filedata' = g.fd
        /\ Emit(FALSE, <<>>, insert_blankline, [previous_line EXCEPT !.blank = TRUE])
    /\ UNCHANGED <<build, starts, options, disk, written, paths, input, pc, crlf,
                   maxcodelen, skiplines, error>>

\* a turn of the second loop on a comment line
CommentTurn ==
    /\ pc = "second"
    /\ LET g == getline(filedata, line)
           l == DropCR(g.line, crlf)
           c == CommentLine(g.fd, l, previous_line, crlf, tab_width, spaces)
       IN  /\ good(g.fd)
           /\ skiplines = 0
           /\ l # <<>>
           /\ StartsWith(l, <<SEMI>>)
           /\ filedata' = c.fd
           /\ Emit(c.before, c.text, insert_blankline,
                   [previous_line EXCEPT !.comment = TRUE, !.blank = FALSE])
    /\ UNCHANGED <<build, starts, options, disk, written, paths, input, pc, crlf,
                   maxcodelen, skiplines, error>>

\* a turn of the second loop on a code line
CodeTurn ==
    /\ pc = "second"
    /\ LET g == getline(filedata, line)
           l == DropCR(g.line, crlf)
           c == CodeLine(g.fd, l, previous_line, crlf, tab_width, spaces, maxcodelen)
       IN  /\ good(g.fd)
           /\ skiplines = 0
           /\ l # <<>>
           /\ ~StartsWith(l, <<SEMI>>)
           /\ filedata' = c.fd
           /\ skiplines' = c.skip
           /\ Emit(c.before, c.text, insert_blankline \/ c.insert,
                   [previous_line EXCEPT !.comment = FALSE, !.blank = FALSE])
    /\ UNCHANGED <<build, starts, options, disk, written, paths, input, pc, crlf,
                   maxcodelen, error>>

\* the second loop ends: the failure check
SecondLoopEnd ==
    /\ pc = "second"
    /\ LET g == getline(filedata, line) IN
        /\ ~good(g.fd)
        /\ line' = g.line
        /\ filedata' = g.fd
        /\ IF ~g.fd.eof /\ g.fd.fail
           THEN error' = "ParseFailure" /\ pc' = "done"
           ELSE UNCHANGED error /\ pc' = "normalize"
    /\ UNCHANGED <<build, starts, options, disk, written, paths, input, crlf,
                   result, maxcodelen, skiplines, statics>>

\* lines 957-1008: blank lines are normalized, line breaks substituted, and
\* the text becomes the content of filedata
Normalize ==
    /\ pc = "normalize"
    /\ LET text == ConvertLineBreaks(NormalizeBlanks(result, crlf, compact, multiline),
                                     crlf, line_break)
       IN  /\ result' = text
           /\ filedata' = str(clear(filedata), text)
    /\ error' = IF ~Preserve(crlf, line_break) /\ line_break = "CR"
                THEN "NotImplemented" ELSE error
    /\ pc' = "done"
    /\ UNCHANGED <<build, starts, options, disk, written, paths, input, crlf, line,
                   maxcodelen, skiplines, statics>>

Next ==
    \/ LoadFile
    \/ WriteFile
    \/ Restart
    \/ Enter
    \/ FirstLoop
    \/ FirstLoopEnd
    \/ SkipLine
    \/ BlankLine
    \/ CommentTurn
    \/ CodeTurn
    \/ SecondLoopEnd
    \/ Normalize

\* files left behind with each value of the statics
Leaders == {<<LF>>, <<SEMI, "c", LF>>, <<SEMI, "c", LF, LF>>}

SpacingLines == {Blank, Plain, ProcStart, ProcEnd, Call}
SectionLines == {Blank, Comment, Plain, Label, End, DataSection}
LeakLines    == {Blank, Comment, Plain, ProcStart, Label, Call}
EndLines     == {Blank, Comment, Plain, ProcEnd, End}

\* files in which every line ends with the line break of the first line
InitUniform ==
    \/ InitWith(FilesOf(SpacingLines, MaxLines), {<<>>}, {Once}, {1}, {2}, {FALSE},
                BOOLEAN, {"Preserve"})
    \/ InitWith(FilesOf(SectionLines, MaxLines - 1), {<<>>}, {Once}, {1}, {2}, {FALSE},
                BOOLEAN, {"Preserve"})
    \/ InitWith(FilesOf(EndLines, MaxLines - 1), {<<>>}, {Once}, {1}, {2}, {FALSE},
                BOOLEAN, {"Preserve"})
    \/ InitWith(FilesOf(AlignLines, MaxLines - 2), {<<>>}, {Once}, {1}, 1..MaxTabWidth,
                BOOLEAN, {FALSE}, {"Preserve"})
    \/ InitWith(FilesOf(LeakLines, MaxLines - 2), {<<>>}, {Once}, {2}, {2}, {FALSE},
                BOOLEAN, {"Preserve"})
    \/ InitWith(FilesOf(LeakLines, MaxLines - 2), Leaders, {Twice, After}, {1}, {2},
                {FALSE}, BOOLEAN, {"Preserve"})

\* files whose lines end differently, with every line break asked for
InitMixed ==
    InitWith(MixedFiles, {<<>>}, {Once}, {1}, {2}, {FALSE}, {FALSE}, LineBreaks)

Init == InitUniform \/ InitMixed

SpecUniform == InitUniform /\ [][Next]_vars

Spec == Init /\ [][Next]_vars

---------------------------------------------------------------------------
(* main up to its loop over the files *)

\* longest command line, in arguments
MaxArgs == 3

CommandWords == {"--version", "--help", "--nologo", "--compact", "--tabwidth",
                 "--linebreaks", "--path", "--directory", "--bogus",
                 "-1", "0", "2", "lf", "cr", "a.asm", "none.asm", "dir"}

\* what main.cpp does not touch before its loop over the files
untouched == <<multiline, starts, tab_width, disk, written, filedata, input, locals,
               statics, error, all_params, lineinfo>>

\* return code, or std::exit(code) from ShowError
Exit(code) ==
    /\ pc' = "exit"
    /\ exitcode' = code
    /\ UNCHANGED <<untouched, argv, argi, tabwidth, spaces, compact, line_break, paths>>

\* main before its loop over the arguments
StartMain ==
    /\ pc = "start"
    /\ \E registered \in BOOLEAN :
        IF ~registered THEN Exit(ErrorCode.FunctionFailed)
        ELSE IF Find(all_params, "--version") THEN Exit(ErrorCode.Success)
        ELSE IF Usage(all_params) THEN Exit(ErrorCode.InvalidCommand)
        ELSE IF Find(all_params, "--help") THEN Exit(ErrorCode.Success)
        ELSE /\ spaces' = FALSE
             /\ compact' = FALSE
             /\ tabwidth' = static_cast_size_t(4)
             /\ line_break' = "Preserve"
             /\ paths' = <<>>
             /\ argv' = <<>>
             /\ argi' = 1
             /\ pc' = "parse"
             /\ UNCHANGED <<untouched, exitcode>>

\* the body of the loop over the arguments for an option that takes an
\* argument: the exit statuses it can end with (Running: it goes on), and
\* the values it leaves
ParseOption(param, arg) ==
    LET goon   == [exits |-> {Running}, tabwidth |-> tabwidth,
                   line_break |-> line_break, files |-> paths]
        end(c) == [goon EXCEPT !.exits = {c}]
    IN  IF param \in {"--encoding", "--tabwidth", "--linebreaks", "--directory", "--path"}
           /\ (arg = "" \/ arg \in Options)
        THEN end(ErrorCode.InvalidOptionArgument)
        ELSE IF param = "--encoding"
        THEN IF arg \in {"utf8", "utf16le", "ansi"} THEN goon
             ELSE end(ErrorCode.InvalidOptionArgument)
        ELSE IF param = "--tabwidth"
        THEN IF arg \notin DOMAIN stoi
             THEN [goon EXCEPT !.exits = {ErrorCode.UnhandledException,
                                          ErrorCode.UnspecifiedError}]
             ELSE IF LessThanOne(static_cast_size_t(stoi[arg]))
             THEN end(ErrorCode.InvalidOptionArgument)
             ELSE [goon EXCEPT !.tabwidth = static_cast_size_t(stoi[arg])]
        ELSE IF param = "--linebreaks"
        THEN IF arg = "crlf" THEN [goon EXCEPT !.line_break = "CRLF"]
             ELSE IF arg = "lf" THEN [goon EXCEPT !.line_break = "LF"]
             ELSE IF arg = "cr" THEN end(ErrorCode.NotImplemented)
             ELSE end(ErrorCode.InvalidOptionArgument)
        ELSE IF param = "--directory"
        THEN IF arg \in DOMAIN Directories
             THEN [goon EXCEPT !.files = paths \o Directories[arg]]
             ELSE goon
        ELSE IF param = "--path"
        THEN IF exists(arg)
             THEN [goon EXCEPT !.files = Append(paths, PathOf(arg))]
             ELSE end(ErrorCode.InvalidCommand)
        ELSE end(ErrorCode.UnknownOption)

\* one turn of the loop over the arguments
ParseArg ==
    /\ pc = "parse"
    /\ argi <= Len(all_params)
    /\ LET param == all_params[argi] IN
       IF param \notin Options
       THEN IF param \in DOMAIN Directories
            THEN /\ argi' = argi + 1
                 /\ UNCHANGED <<untouched, argv, tabwidth, spaces, compact, line_break,
                                paths, pc, exitcode>>
            ELSE IF exists(param)
            THEN /\ paths' = Append(paths, PathOf(param))
                 /\ argv' = paths'
                 /\ argi' = argi + 1
                 /\ UNCHANGED <<untouched, tabwidth, spaces, compact, line_break, pc,
                                exitcode>>
            ELSE Exit(ErrorCode.InvalidCommand)
       ELSE IF param \in {"--nologo", "--spaces", "--compact", "--recurse"}
       THEN /\ spaces' = (spaces \/ param = "--spaces")
            /\ compact' = (compact \/ param = "--compact")
            /\ argi' = argi + 1
            /\ UNCHANGED <<untouched, argv, tabwidth, line_break, paths, pc, exitcode>>
       ELSE LET hasarg == argi < Len(all_params)
                arg    == IF hasarg THEN all_params[argi + 1] ELSE ""
                o      == ParseOption(param, arg)
            IN  \E e \in o.exits :
                    IF e # Running THEN Exit(e)
                    ELSE /\ tabwidth' = o.tabwidth
                         /\ line_break' = o.line_break
                         /\ paths' = o.files
                         /\ argv' = paths'
                         /\ argi' = IF hasarg THEN argi + 2 ELSE argi + 1
                         /\ UNCHANGED <<untouched, spaces, compact, pc, exitcode>>

\* the loop over the arguments has ended: main enters its loop over the files
ParseEnd ==
    /\ pc = "parse"
    /\ argi > Len(all_params)
    /\ IF files_empty(paths) THEN Exit(ErrorCode.InvalidCommand)
       ELSE /\ pc' = "main"
            /\ UNCHANGED <<untouched, argv, argi, tabwidth, spaces, compact, line_break,
                           paths, exitcode>>

NextMain ==
    \/ StartMain
    \/ ParseArg
    \/ ParseEnd

\* the process has been started with a command line
InitMain ==
    /\ multiline \in BOOLEAN
    /\ all_params \in UNION {[1..n -> CommandWords] : n \in 0..MaxArgs}
    /\ argi = 1
    /\ tabwidth = static_cast_size_t(0)
    /\ lineinfo = NoInfo
    /\ exitcode = Running
    /\ argv = <<>>
    /\ starts = 1
    /\ tab_width = 1
    /\ spaces = FALSE
    /\ compact = FALSE
    /\ line_break = "Preserve"
    /\ disk = [p \in {1, 2} |-> IF p = 1 THEN Plain \o <<LF>> ELSE <<>>]
    /\ written = {}
    /\ paths = <<>>
    /\ filedata = Stream(<<>>)
    /\ input = <<>>
    /\ pc = "start"
    /\ crlf = FALSE
    /\ line = <<>>
    /\ result = <<>>
    /\ maxcodelen = 0
    /\ skiplines = 0
    /\ previous_line = NoInfo
    /\ insert_blankline = FALSE
    /\ error = "none"

SpecMain == InitMain /\ [][NextMain]_vars

---------------------------------------------------------------------------
(* The inline comment of the line the second loop is at *)

\* the line the second loop works on in this turn, after "Drop \r"
CurrentLine == DropCR(getline(filedata, line).line, crlf)

\* the second loop is at a code line
AtCodeLine ==
    /\ pc = "second"
    /\ good(getline(filedata, line).fd)
    /\ skiplines = 0
    /\ CurrentLine # <<>>
    /\ ~StartsWith(CurrentLine, <<SEMI>>)

\* lines 869-876: the line with its indentation
IndentedLine ==
    IF TestIndentLine(GetLineInfo(CurrentLine))
    THEN TabOf(tab_width, spaces) \o CurrentLine ELSE CurrentLine

\* the length of match[1] of the pattern of line 880
TabGroup ==
    LET tab == TabOf(tab_width, spaces) IN
    IF LitAt(IndentedLine, 0, tab) /\ CodeEnd(IndentedLine, Len(tab)) >= 0
    THEN Len(tab) ELSE 0

\* line 886, codelen = match[2].str().length(): -1 when the pattern of line
\* 880 does not match
codelen ==
    LET k == CodeEnd(IndentedLine, TabGroup) IN
    IF k < 0 THEN 0 - 1 ELSE k - TabGroup

\* the number of characters code.append(...) of lines 896-927 adds: the run
\* of blanks or tabs that stands in the rewritten line between the code and
\* the ';' of the comment
Padding ==
    LET k    == CodeEnd(IndentedLine, TabGroup)
        ws   == RunLen(IndentedLine, k, Whitespace)
        cend == k + ws + 1 + RunLenNot(IndentedLine, k + ws + 1, {LF, CR})
        text == AlignComment(IndentedLine, TestIndentLine(GetLineInfo(CurrentLine)),
                             tab_width, spaces, maxcodelen)
    IN  RunLen(text, k + (Len(IndentedLine) - cend), {SP, TAB})

---------------------------------------------------------------------------
(* FormatFileA as a function of the text and of the statics it is entered with *)

\* the first loop: the text it leaves in result and the maxcodelen
RECURSIVE FirstPass(_, _, _, _, _)
FirstPass(fd, ln, res, islf, maxlen) ==
    LET g == getline(fd, ln)
        f == FirstPassLine(g.line, ~islf)
    IN  IF ~good(g.fd) THEN [result |-> res, maxcodelen |-> maxlen]
        ELSE FirstPass(g.fd, f.line \o LineBreakText(~islf),
                       res \o f.line \o LineBreakText(~islf), islf,
                       IF f.codelen > maxlen THEN f.codelen ELSE maxlen)

\* the second loop: the text it leaves in result
RECURSIVE SecondPass(_, _, _, _, _, _, _)
SecondPass(fd, ln, res, previous, skip, islf, maxlen) ==
    LET g  == getline(fd, ln)
        l  == DropCR(g.line, ~islf)
        lb == LineBreakText(~islf)
    IN  IF ~good(g.fd) THEN res
        ELSE IF skip > 0 THEN SecondPass(g.fd, g.line, res, previous, skip - 1, islf, maxlen)
        ELSE IF l = <<>>
            THEN SecondPass(g.fd, lb, res \o lb, [previous EXCEPT !.blank = TRUE], 0,
                            islf, maxlen)
        ELSE IF StartsWith(l, <<SEMI>>)
            THEN LET c == CommentLine(g.fd, l, previous, ~islf, tab_width, spaces)
                 IN  SecondPass(c.fd, c.text \o lb,
                                res \o (IF c.before THEN lb ELSE <<>>) \o c.text \o lb,
                                [previous EXCEPT !.comment = TRUE, !.blank = FALSE],
                                0, islf, maxlen)
        ELSE LET c == CodeLine(g.fd, l, previous, ~islf, tab_width, spaces, maxlen)
             IN  SecondPass(c.fd, c.text \o lb,
                            res \o (IF c.before THEN lb ELSE <<>>) \o c.text \o lb
                                \o (IF c.insert THEN lb ELSE <<>>),
                            [previous EXCEPT !.comment = FALSE, !.blank = c.insert],
                            c.skip, islf, maxlen)

\* the text FormatFileA leaves in filedata when it is called on text with
\* previous_line = previous, under the options and the build of the state
FormatFileA(text, previous) ==
    LET lb    == GetLineBreak(Stream(text))
        islf  == lb.linebreak = "LF"
        first == FirstPass(lb.fd, <<>>, <<>>, islf, 0)
        second == SecondPass(Stream(first.result), <<>>, <<>>, previous, 0, islf,
                             first.maxcodelen)
    IN  ConvertLineBreaks(NormalizeBlanks(second, ~islf, compact, multiline),
                          ~islf, line_break)

---------------------------------------------------------------------------
(* GetLineInfo called on one trimmed line *)

\* longest run of characters added to the beginning of an identifier
MaxTail == 1

\* identifiers: nothing, "call" or "end" in either case, then word characters
Identifiers ==
    LET heads == {<<>>, <<"c","a","l","l">>, <<"C","a","L","L">>, <<"e","n","d">>,
                  <<"E","N","D">>}
        tails == UNION {[1..k -> {"a", "_", "1"}] : k \in 0..MaxTail}
    IN  {h \o t : h \in heads, t \in tails} \ {<<>>}

\* the trimmed lines of the three forms, alone and with text after them
ClassifyLines ==
    LET gaps     == {<<SP>>, <<TAB, SP>>}
        keywords == {<<"p","r","o","c">>, <<"P","R","O","C">>, <<"e","n","d","p">>,
                     <<"E","n","d","P">>}
        rests    == {<<>>, <<SP, "x">>}
    IN  {id \o g \o k \o r : id \in Identifiers, g \in gaps, k \in keywords, r \in rests}
        \cup {id \o <<":">> \o r : id \in Identifiers, r \in rests}

\* a line is handed to GetLineInfo
InitClassify ==
    /\ line \in ClassifyLines
    /\ lineinfo = NoInfo
    /\ pc = "classify"
    /\ multiline \in BOOLEAN
    /\ all_params = <<>>
    /\ argi = 1
    /\ tabwidth = static_cast_size_t(4)
    /\ exitcode = Running
    /\ argv = <<>>
    /\ starts = 1
    /\ tab_width = 4
    /\ spaces = FALSE
    /\ compact = FALSE
    /\ line_break = "Preserve"
    /\ disk = [p \in {1, 2} |-> <<>>]
    /\ written = {}
    /\ paths = <<>>
    /\ filedata = Stream(<<>>)
    /\ input = <<>>
    /\ crlf = FALSE
    /\ result = <<>>
    /\ maxcodelen = 0
    /\ skiplines = 0
    /\ previous_line = NoInfo
    /\ insert_blankline = FALSE
    /\ error = "none"

\* const LineInfo lineinfo = GetLineInfo<std::regex>(line)
Classify ==
    /\ pc = "classify"
    /\ lineinfo' = GetLineInfo(line)
    /\ pc' = "classified"
    /\ UNCHANGED <<multiline, argv, all_params, argi, tabwidth, exitcode, starts,
                   options, disk, written, paths, filedata, input, locals, statics,
                   error>>

NextClassify == Classify

SpecClassify == InitClassify /\ [][NextClassify]_vars

---------------------------------------------------------------------------
(* Reading a text as lines *)

StripCR(l) == IF l # <<>> /\ l[Len(l)] = CR THEN DropLast(l) ELSE l

\* the lines of a text: what stands between line feeds, without the carriage
\* return of a CRLF
RECURSIVE SplitLines(_)
SplitLines(text) ==
    IF text = <<>> THEN <<>>
    ELSE LET nl == FindChar(text, 0, LF) IN
         IF nl = 0 THEN <<StripCR(text)>>
         ELSE <<StripCR(SubSeq(text, 1, nl - 1))>> \o SplitLines(Tail_(text, nl))

\* the characters of a text that are not whitespace
NonWhitespace(text) == SelectSeq(text, LAMBDA ch : ch \notin Whitespace)

IsBlank(l) == l = <<>>
IsComment(l) == StartsWith(TrimLeading(l), <<SEMI>>)
IsCode(l) == ~IsBlank(l) /\ ~IsComment(l)
InfoOf(l) == GetLineInfo(TrimLeading(l))
IsProcStart(l) == IsCode(l) /\ InfoOf(l).directive = "proc"
IsProcEnd(l) == IsCode(l) /\ InfoOf(l).directive = "endp"
IsPlain(l) == IsCode(l) /\ InfoOf(l) = NoInfo
HasInlineComment(l) == IsCode(l) /\ FindChar(l, 0, SEMI) # 0

\* the display column reached after the first n characters of l: a tab
\* advances to the next multiple of tw, any other character one column
RECURSIVE ColumnAfter(_, _, _)
ColumnAfter(l, n, tw) ==
    IF n = 0 THEN 0
    ELSE LET c == ColumnAfter(l, n - 1, tw) IN
         IF l[n] = TAB THEN ((c \div tw) + 1) * tw ELSE c + 1

\* the display column of the first ';' of l
SemiColumn(l, tw) == ColumnAfter(l, FindChar(l, 0, SEMI) - 1, tw)

\* the text FormatFileA has left in filedata, as lines
OutputLines == SplitLines(filedata.str)
InputLines == SplitLines(input)

\* FormatFileA has returned
Returned == pc = "done"

\* the indices of the non-blank lines of ls, in order
NonBlankIndex(ls) ==
    LET idx == {i \in 1..Len(ls) : ~IsBlank(ls[i])}
        RECURSIVE Sorted(_)
        Sorted(S) == IF S = {} THEN <<>>
                     ELSE LET m == CHOOSE x \in S : \A y \in S : x <= y
                          IN  <<m>> \o Sorted(S \ {m})
    IN  Sorted(idx)

---------------------------------------------------------------------------
(* The claims *)

\* C1: formatting a file that FormatFileA has written, with the same options,
\* leaves its text as it is.
C1_Idempotence ==
    (Returned /\ Head(paths) \in written) => filedata.str = input

\* C2: the non-whitespace characters of the output are those of the input,
\* in the same order.
C2_ContentPreserved ==
    Returned => NonWhitespace(filedata.str) = NonWhitespace(input)

\* C3: in the output every code line with an inline comment has its ';' at
\* the same display column.
C3_CommentsAligned ==
    Returned =>
        \A i, j \in 1..Len(OutputLines) :
            (HasInlineComment(OutputLines[i]) /\ HasInlineComment(OutputLines[j]))
            => SemiColumn(OutputLines[i], tab_width) = SemiColumn(OutputLines[j], tab_width)

\* the smallest multiple of tw that is at least n
RoundUp(n, tw) == ((n + tw - 1) \div tw) * tw

\* C4: counted from the start of the code text, the column of the ';' of an
\* inline comment is the smallest multiple of tab_width that is greater than
\* or equal to the maximum code width.
C4_AlignmentColumn ==
    Returned =>
        \A i \in 1..Len(OutputLines) :
            HasInlineComment(OutputLines[i])
            => SemiColumn(OutputLines[i], tab_width) - tab_width
               = RoundUp(maxcodelen, tab_width)

\* C5: in the output a ProcStart line is the first non-blank line, or follows
\* a comment, or follows exactly one blank line.
C5_ProcedureSpacing ==
    Returned =>
        \A i \in 1..Len(OutputLines) :
            IsProcStart(OutputLines[i]) =>
                \/ \A k \in 1..(i - 1) : IsBlank(OutputLines[k])
                \/ IsComment(OutputLines[i - 1])
                \/ /\ IsBlank(OutputLines[i - 1])
                   /\ i > 2 => ~IsBlank(OutputLines[i - 2])

\* C6: the output does not start with two blank lines and does not end with
\* two blank lines.
C6_NoSurplusAtEnds ==
    Returned =>
        LET n == Len(OutputLines) IN
        n >= 2 => /\ ~(IsBlank(OutputLines[1]) /\ IsBlank(OutputLines[2]))
                  /\ ~(IsBlank(OutputLines[n]) /\ IsBlank(OutputLines[n - 1]))

\* C6 witness: a file with code that began or ended with two blank lines
\* has been formatted.
C6_Witness ==
    /\ Returned
    /\ NonWhitespace(input) # <<>>
    /\ LET n == Len(InputLines) IN
       /\ n >= 3
       /\ \/ IsBlank(InputLines[1]) /\ IsBlank(InputLines[2])
          \/ IsBlank(InputLines[n]) /\ IsBlank(InputLines[n - 1])

\* C7: the output begins with exactly one blank line.
C7_OneLeadingBlank ==
    Returned =>
        /\ Len(OutputLines) >= 1
        /\ IsBlank(OutputLines[1])
        /\ Len(OutputLines) >= 2 => ~IsBlank(OutputLines[2])

\* C8: in the output no ProcEnd line directly follows a blank line.
C8_NoBlankBeforeProcEnd ==
    Returned =>
        \A i \in 2..Len(OutputLines) :
            IsProcEnd(OutputLines[i]) => ~IsBlank(OutputLines[i - 1])

\* C9: with compact set, the output has no two consecutive blank lines.
C9_CompactNoSurplus ==
    (Returned /\ compact) =>
        \A i \in 2..Len(OutputLines) :
            ~(IsBlank(OutputLines[i]) /\ IsBlank(OutputLines[i - 1]))

\* C10: without compact, two or more blank lines between two plain code
\* lines of the input are as many blank lines between the same two lines of
\* the output.
C10_InteriorRunsKept ==
    (Returned /\ ~compact) =>
        LET in  == NonBlankIndex(InputLines)
            out == NonBlankIndex(OutputLines)
        IN  \A m \in 1..(Len(in) - 1) :
                (/\ IsPlain(InputLines[in[m]])
                 /\ IsPlain(InputLines[in[m + 1]])
                 /\ in[m + 1] - in[m] >= 3)
                => /\ Len(out) = Len(in)
                   /\ out[m + 1] - out[m] = in[m + 1] - in[m]

\* no carriage return stands in text
NoCR(text) == \A i \in 1..Len(text) : text[i] # CR

\* text ends with a line feed, and no line feed of it follows a carriage return
BareLF(text) ==
    /\ text # <<>> /\ text[Len(text)] = LF
    /\ \A i \in 2..Len(text) : text[i] = LF => text[i - 1] # CR

\* text ends with a line feed, and every line feed of it follows a carriage return
AllCRLF(text) ==
    /\ text # <<>> /\ text[Len(text)] = LF
    /\ \A i \in 1..Len(text) : text[i] = LF => (i > 1 /\ text[i - 1] = CR)

\* a line of text has a carriage return between two of its characters that
\* are not whitespace
StrayCR(text) ==
    \E i, j, k \in 1..Len(text) :
        /\ i < j /\ j < k
        /\ text[j] = CR
        /\ text[i] \notin Whitespace /\ text[k] \notin Whitespace
        /\ \A m \in i..k : text[m] # LF

\* C11 as stated: with CRLF detected and LF asked for, every line of the
\* output ends with a bare LF and the output holds no CR; with LF detected
\* and CRLF asked for, every line of the output ends with CRLF.
C11_LineBreaksConverted ==
    Returned =>
        /\ (crlf /\ line_break = "LF") => (BareLF(filedata.str) /\ NoCR(filedata.str))
        /\ (~crlf /\ line_break = "CRLF") => AllCRLF(filedata.str)

\* C11: with CRLF detected and LF asked for, every line of the output ends
\* with a bare LF, and the output holds no CR unless a line of the input has
\* a CR between two of its non-whitespace characters; with LF detected and
\* CRLF asked for, every line of the output ends with CRLF.
C11_LineBreaksConvertedAmended ==
    Returned =>
        /\ (crlf /\ line_break = "LF") =>
                /\ BareLF(filedata.str)
                /\ ~StrayCR(input) => NoCR(filedata.str)
        /\ (~crlf /\ line_break = "CRLF") => AllCRLF(filedata.str)

\* C11 witness: a CRLF file of several lines, one of them ending with a bare
\* LF, has been formatted with LF asked for.
C11_Witness ==
    /\ Returned
    /\ crlf /\ line_break = "LF"
    /\ Len(InputLines) >= 2
    /\ NonWhitespace(filedata.str) # <<>>
    /\ ~AllCRLF(input)

\* C12: a call with line_break CR reports a failure and substitutes no line
\* break, whichever line break is detected.
C12_CRReported ==
    (Returned /\ line_break = "CR") =>
        /\ error = "NotImplemented"
        /\ IF crlf THEN AllCRLF(filedata.str) ELSE BareLF(filedata.str)

\* C13: when FormatFileA has reported a failure, filedata holds what it held
\* when FormatFileA was called.
C13_FailureKeepsBuffer ==
    (Returned /\ error # "none") => filedata.str = input

\* the rewrite pass of a call is about to read its first line
RewriteStarts == pc = "second" /\ filedata.pos = 0

\* C14: at the start of the rewrite pass of every call the statics are in
\* their initial state, whatever was formatted before.
C14_FreshState ==
    RewriteStarts => (previous_line = NoInfo /\ insert_blankline = FALSE)

\* the classifications the indentation rule leaves at column 0
Unindented(info) ==
    info.label \/ info.directive \in {"proc", "endp", "_data", "_code", "_const"}

\* l starts with exactly one indentation unit and a character that is not
\* whitespace after it
IndentedOnce(l) ==
    LET tab == TabOf(tab_width, spaces) IN
    /\ StartsWith(l, tab)
    /\ Len(l) > Len(tab)
    /\ l[Len(tab) + 1] \notin Whitespace

\* C15: a code line of the output starts at column 0 when it is a Label,
\* ProcStart, ProcEnd, DataSection, CodeSection or ConstSection line, and
\* with exactly one indentation unit otherwise.
C15_IndentationRule ==
    Returned =>
        \A i \in 1..Len(OutputLines) :
            LET l == OutputLines[i] IN
            IsCode(l) => IF Unindented(InfoOf(l))
                         THEN l[1] \notin Whitespace
                         ELSE IndentedOnce(l)

\* C15 witness: the output has a code line at column 0 and an indented one.
C15_Witness ==
    /\ Returned
    /\ \E i, j \in 1..Len(OutputLines) :
        /\ IsCode(OutputLines[i]) /\ Unindented(InfoOf(OutputLines[i]))
        /\ IsCode(OutputLines[j]) /\ ~Unindented(InfoOf(OutputLines[j]))

\* the options main.cpp knows
Recognized == {"--version", "--help", "--nologo", "--spaces", "--compact", "--recurse",
               "--encoding", "--tabwidth", "--linebreaks", "--directory", "--path"}

\* the command line has an option that is not recognized
Unrecognized(params) ==
    \E k \in 1..Len(params) : params[k] \in Options \ Recognized

\* the command line names no file that exists and no directory with files
NoFile(params) ==
    ~ \E k \in 1..Len(params) :
        \/ params[k] \in DOMAIN Existing
        \/ k > 1 /\ params[k - 1] = "--directory" /\ params[k] \in DOMAIN Directories

\* C16: a command line with an option that is not recognized, or without an
\* existing file to format, does not end with exit status 0 and does not get
\* to the loop over the files, whatever else it holds.
C16_ExitStatus ==
    (Unrecognized(all_params) \/ NoFile(all_params)) =>
        (exitcode # ErrorCode.Success /\ pc # "main")

\* C17: the turn of the loop that takes --tabwidth with a number ends the
\* process with InvalidOptionArgument when the number is less than 1, and
\* leaves the number itself as the tab width otherwise.
C17_TabWidthChecked ==
    [][(/\ pc = "parse"
        /\ argi < Len(all_params)
        /\ all_params[argi] = "--tabwidth"
        /\ all_params[argi + 1] \in DOMAIN stoi)
       => IF stoi[all_params[argi + 1]] < 1
          THEN pc' = "exit" /\ exitcode' = ErrorCode.InvalidOptionArgument
          ELSE tabwidth' = <<0, 0, 0, stoi[all_params[argi + 1]]>>]_vars

\* the first line of ls that is not a comment, when it comes before a blank
\* line and before the end of ls
RECURSIVE NextNonComment(_)
NextNonComment(ls) ==
    IF ls = <<>> THEN [reached |-> FALSE, line |-> <<>>]
    ELSE IF IsComment(ls[1]) THEN NextNonComment(Tail(ls))
    ELSE IF IsBlank(ls[1]) THEN [reached |-> FALSE, line |-> <<>>]
    ELSE [reached |-> TRUE, line |-> ls[1]]

\* C18: the rewrite pass emits a comment line with one indentation unit when
\* the first line after it that is not a comment comes before any blank line
\* and before the end of what the pass reads, and is a line the indentation
\* rule indents; otherwise it emits the comment at column 0.
C18_CommentIndentation ==
    [][(pc = "second" /\ pc' = "second" /\ result' # result /\ IsComment(line'))
       => LET rest == SplitLines(Tail_(filedata'.str, filedata'.pos))
              n    == NextNonComment(rest)
          IN  IF n.reached /\ ~Unindented(GetLineInfo(n.line))
              THEN StartsWith(line', TabOf(tab_width, spaces) \o <<SEMI>>)
              ELSE StartsWith(line', <<SEMI>>)]_vars

\* C18 witness: the output has a comment with indentation and a comment at
\* column 0.
C18_Witness ==
    /\ Returned
    /\ \E i, j \in 1..Len(OutputLines) :
        /\ StartsWith(OutputLines[i], TabOf(tab_width, spaces) \o <<SEMI>>)
        /\ StartsWith(OutputLines[j], <<SEMI>>)

\* the number of blank lines ls begins with
RECURSIVE LeadingBlanks(_)
LeadingBlanks(ls) ==
    IF ls # <<>> /\ IsBlank(ls[1]) THEN 1 + LeadingBlanks(Tail(ls)) ELSE 0

\* l is a ProcStart, .data, .code or .const line
IsSectionStart(l) == IsCode(l) /\ InfoOf(l).directive \in {"proc", "_data", "_code", "_const"}

\* the line emitted last is neither blank nor a comment (nor is there none)
PreviousIsCode(text) ==
    text = <<>> \/ IsCode(SplitLines(text)[Len(SplitLines(text))])

\* the turn of the rewrite pass emits a section-starting line
EmitsSectionStart ==
    /\ pc = "second" /\ pc' = "second" /\ result' # result
    /\ IsSectionStart(StripCR(DropLast(line')))

\* C19, the turn: the lines to skip are the blank lines that follow
C19_SkipsFollowingBlanks ==
    EmitsSectionStart =>
        skiplines' = LeadingBlanks(SplitLines(Tail_(filedata'.str, filedata'.pos)))

\* C19, the turn: a blank line goes before the line exactly when the line
\* emitted before is neither blank nor a comment
C19_BlankBefore ==
    EmitsSectionStart =>
        result' = result
                  \o (IF PreviousIsCode(result) THEN LineBreakText(crlf) ELSE <<>>)
                  \o line'

\* the indices of the section-starting lines of ls, in order
SectionIndex(ls) ==
    LET RECURSIVE From(_)
        From(i) == IF i > Len(ls) THEN <<>>
                   ELSE IF IsSectionStart(ls[i]) THEN <<i>> \o From(i + 1)
                   ELSE From(i + 1)
    IN  From(1)

\* the first non-blank line of ls after line j is a section-starting line, or
\* a comment with a section-starting line as the next line that is no comment
IntroducesSection(ls, j) ==
    LET rest == SubSeq(ls, j + 1, Len(ls))
        from == SubSeq(rest, LeadingBlanks(rest) + 1, Len(rest))
    IN  /\ from # <<>>
        /\ \/ IsSectionStart(from[1])
           \/ /\ IsComment(from[1])
              /\ NextNonComment(from).reached
              /\ IsSectionStart(NextNonComment(from).line)

\* C19, the output: a section-starting line is directly followed by a blank
\* line only if the next non-blank line of the input starts a section or is
\* a comment that introduces one
C19_BlankAfter ==
    Returned =>
        LET in  == SectionIndex(InputLines)
            out == SectionIndex(OutputLines)
        IN  \A k \in 1..Len(out) :
                (out[k] < Len(OutputLines) /\ IsBlank(OutputLines[out[k] + 1]))
                => (k <= Len(in) /\ IntroducesSection(InputLines, in[k]))

\* C19: when the rewrite pass processes a ProcStart, .data, .code or .const
\* line it drops exactly the blank lines that directly follow it and emits a
\* blank line before it exactly when the line emitted before is neither
\* blank nor a comment; in the output such a line is directly followed by a
\* blank line only if the next non-blank input line starts a section or is a
\* comment introducing one.
C19_SectionSpacing ==
    /\ [][C19_SkipsFollowingBlanks /\ C19_BlankBefore]_vars
    /\ []C19_BlankAfter

IsEnd(l) == IsCode(l) /\ InfoOf(l).directive = "end"

\* the indices of the ProcEnd lines of ls, in order
ProcEndIndex(ls) ==
    LET RECURSIVE From(_)
        From(i) == IF i > Len(ls) THEN <<>>
                   ELSE IF IsProcEnd(ls[i]) THEN <<i>> \o From(i + 1)
                   ELSE From(i + 1)
    IN  From(1)

\* the index of the first code line of ls after line i, 0 when there is none
NextCode(ls, i) ==
    LET later == {k \in (i + 1)..Len(ls) : IsCode(ls[k])}
    IN  IF later = {} THEN 0 ELSE CHOOSE k \in later : \A m \in later : k <= m

\* what C20 says of the ProcEnd line at index i of the output, the k-th of
\* its ProcEnd lines, whose next code line is at index n
EndpFollowedByBlank(i, k, n) ==
    LET in == ProcEndIndex(InputLines) IN
    IF IsEnd(OutputLines[n])
    THEN ~IsBlank(OutputLines[i + 1])
    ELSE /\ IsBlank(OutputLines[i + 1])
         /\ (k <= Len(in) /\ ~IsBlank(InputLines[in[k] + 1]))
            => ~IsBlank(OutputLines[i + 2])

IsLabel(l) == IsCode(l) /\ InfoOf(l).label

\* the index of the last code line of ls before line i, 0 when there is none
PreviousCode(ls, i) ==
    LET earlier == {k \in 1..(i - 1) : IsCode(ls[k])}
    IN  IF earlier = {} THEN 0 ELSE CHOOSE k \in earlier : \A m \in earlier : m <= k

\* C21: in the output a blank line directly follows the code line before a
\* Label line, comments and blank lines passed over, unless that code line
\* is a ProcStart, a ProcEnd or a section directive.
C21_BlankBeforeLabel ==
    Returned =>
        \A i \in 1..Len(OutputLines) :
            LET p == PreviousCode(OutputLines, i) IN
            (/\ IsLabel(OutputLines[i])
             /\ p # 0
             /\ InfoOf(OutputLines[p]).directive
                    \notin {"proc", "endp", "_data", "_code", "_const"})
            => IsBlank(OutputLines[p + 1])

\* C21 witness: the output has a Label line after a plain code line, with a
\* comment between the two that the input had directly after the code line.
C21_Witness ==
    /\ Returned
    /\ \E i \in 1..Len(OutputLines) :
        LET p == PreviousCode(OutputLines, i) IN
        /\ IsLabel(OutputLines[i])
        /\ p # 0
        /\ IsPlain(OutputLines[p])
        /\ \E k \in (p + 1)..(i - 1) : IsComment(OutputLines[k])
    /\ \E j \in 1..(Len(InputLines) - 1) :
        IsPlain(InputLines[j]) /\ IsComment(InputLines[j + 1])

\* two blank lines of ls stand next to each other
DoubleBlank(ls) == \E i \in 1..(Len(ls) - 1) : IsBlank(ls[i]) /\ IsBlank(ls[i + 1])

\* C22: when the second loop has ended and the normalizer has not yet run,
\* result has no two consecutive blank lines unless the input had.
C22_NoSurplusCreated ==
    (pc = "normalize" /\ ~DoubleBlank(InputLines)) => ~DoubleBlank(SplitLines(result))

\* l is word characters, then blanks or tabs, then keyword in any letter case
IdentifierThen(l, keyword) ==
    \E w \in 1..Len(l), g \in 1..Len(l) :
        /\ w + g + Len(keyword) <= Len(l)
        /\ \A i \in 1..w : l[i] \in WordChars
        /\ \A i \in (w + 1)..(w + g) : l[i] \in {SP, TAB}
        /\ \A i \in 1..Len(keyword) : ToLower(l[w + g + i]) = keyword[i]

\* l is word characters directly followed by ':'
IdentifierColon(l) ==
    \E w \in 1..(Len(l) - 1) :
        (\A i \in 1..w : l[i] \in WordChars) /\ l[w + 1] = ":"

\* C23: GetLineInfo gives ProcStart for identifier, whitespace, 'proc',
\* ProcEnd for identifier, whitespace, 'endp', and Label for identifier ':',
\* whatever the identifier.
C23_Classification ==
    pc = "classified" =>
        /\ IdentifierThen(line, <<"p","r","o","c">>) => lineinfo.directive = "proc"
        /\ IdentifierThen(line, <<"e","n","d","p">>) => lineinfo.directive = "endp"
        /\ IdentifierColon(line) => lineinfo.label

\* l without the whitespace at its two ends
Strip(l) ==
    LET keep == {i \in 1..Len(l) : l[i] \notin Whitespace} IN
    IF keep = {} THEN <<>>
    ELSE SubSeq(l, CHOOSE i \in keep : \A j \in keep : i <= j,
                   CHOOSE i \in keep : \A j \in keep : j <= i)

\* what the line l adds to the maximum code width: the number of characters
\* before its first ';' without the whitespace directly before it, 0 for a
\* blank line, a comment line and a line without ';'
CodeWidth(l) ==
    LET t == Strip(l)
        s == FindChar(t, 0, SEMI)
    IN  IF t = <<>> \/ t[1] = SEMI \/ s = 0 THEN 0
        ELSE (s - 1) - TrailingRun(SubSeq(t, 1, s - 1), Whitespace)

\* C24: when the first loop has ended, maxcodelen is the greatest code width
\* of the lines of the input, 0 when no line has an inline comment.
C24_MaxCodeWidth ==
    pc = "second" =>
        /\ \A i \in 1..Len(InputLines) : CodeWidth(InputLines[i]) <= maxcodelen
        /\ \/ maxcodelen = 0
           \/ \E i \in 1..Len(InputLines) : CodeWidth(InputLines[i]) = maxcodelen

\* the stream as the second loop has it when it calls a peek: after the
\* getline of the turn
AfterGetline == getline(filedata, line).fd

\* C25: PeekNextLine, PeekNextCodeLine and GetBlankCount return the stream
\* with the read position and the state bits it had when they were called,
\* wherever FormatFileA calls them.
C25_PeeksRestore ==
    /\ pc = "call" =>
            /\ PeekNextLine(filedata).fd = filedata
            /\ GetLineBreak(filedata).fd = filedata
    /\ (pc = "second" /\ good(AfterGetline)) =>
            /\ PeekNextLine(AfterGetline).fd = AfterGetline
            /\ PeekNextCodeLine(AfterGetline, crlf, TRUE).fd = AfterGetline
            /\ PeekNextCodeLine(AfterGetline, crlf, FALSE).fd = AfterGetline
            /\ GetBlankCount(AfterGetline, crlf).fd = AfterGetline

\* C25 witness: the second loop has read the last line of a text of several
\* lines, so every peek runs into the end of input.
C25_Witness ==
    /\ pc = "second"
    /\ good(AfterGetline)
    /\ filedata.pos > 0
    /\ AfterGetline.pos = Len(filedata.str)
    /\ PeekCodeLoop(AfterGetline, <<>>, crlf, TRUE).fd.eof
    /\ BlankCountLoop(AfterGetline, <<>>, crlf).fd.fail

\* the line the getline of the turn reads
LineRead == getline(filedata, line).line

\* C26: with CRLF detected, the character the first and the second loop
\* erase from the end of a non-empty line is a carriage return.
C26_ErasesCarriageReturn ==
    (/\ crlf
     /\ pc \in {"first", "second"}
     /\ good(AfterGetline)
     /\ pc = "second" => skiplines = 0
     /\ LineRead # <<>>)
    => LineRead[Len(LineRead)] = CR

\* the values of previous_line an earlier call can leave behind
LeftBehind == {[NoInfo EXCEPT !.blank = b, !.comment = c] : b, c \in BOOLEAN}

\* C27: the text FormatFileA returns is the text it returns for the same
\* input when entered with any other value of the flags of previous_line.
C27_SameForEveryPreviousLine ==
    Returned => \A previous \in LeftBehind : FormatFileA(input, previous) = filedata.str

\* C27 witness: FormatFileA has returned from a call it entered with flags
\* an earlier file left set, on a text whose first line consults them.
C27_Witness ==
    /\ Returned
    /\ argv = After
    /\ paths = <<1>>
    /\ InputLines # <<>>
    /\ IsProcStart(InputLines[1])
    /\ disk[2] # <<LF>>

\* the next n lines of the stream fd are there and are empty, the carriage
\* return of a CRLF line break not counted
RECURSIVE BlankAhead(_, _)
BlankAhead(fd, n) ==
    \/ n = 0
    \/ LET g == getline(fd, <<>>) IN
        /\ good(g.fd)
        /\ DropCR(g.line, crlf) = <<>>
        /\ BlankAhead(g.fd, n - 1)

\* C28: at every point of the second loop the next skiplines lines of the
\* stream are blank lines.
C28_SkipsBlankLinesOnly ==
    pc = "second" => BlankAhead(filedata, skiplines)

\* C28 witness: the second loop is about to skip two lines of a CRLF text.
C28_Witness ==
    /\ pc = "second"
    /\ skiplines = 2
    /\ crlf

\* every line of text, the last too, ends with the line break of the first
UniformBreaks(text) ==
    \/ text = <<>>
    \/ /\ text[Len(text)] = LF
       /\ LET first == FindChar(text, 0, LF)
              withcr == first > 1 /\ text[first - 1] = CR
          IN  \A i \in 1..Len(text) :
                  text[i] = LF => (withcr <=> (i > 1 /\ text[i - 1] = CR))

\* C29: when every line of the input ends with the line break of the first
\* line, the text FormatFileA returns has the non-whitespace characters of
\* the input, in the same order.
C29_UniformContentPreserved ==
    (Returned /\ UniformBreaks(input)) => NonWhitespace(filedata.str) = NonWhitespace(input)

\* C30: for a line of the second loop in which the pattern of the inline
\* comment matches, codelen is at most maxcodelen, so maxcodelen - codelen
\* does not wrap around, and at most maxcodelen + 2 * tab_width characters
\* of padding are added.
C30_CodeLengthBounded ==
    (AtCodeLine /\ codelen >= 0) =>
        /\ codelen <= maxcodelen
        /\ Padding <= maxcodelen + 2 * tab_width

\* C30 witness: the second loop is at a line that is not indented, has an
\* inline comment, and is shorter than the longest of the file.
C30_Witness ==
    /\ AtCodeLine
    /\ codelen >= 0
    /\ codelen < maxcodelen
    /\ ~TestIndentLine(GetLineInfo(CurrentLine))
    /\ Padding > 0

====
